---- MODULE Spec2Model ----
(***************************************************************************)
(* A model of scripts/check-hotspots.py: the hot-spot reporter.  The       *)
(* script opens a level file, parses it, walks the layers of the document  *)
(* and, for each layer whose type is "hot_spots", prints a header, one     *)
(* line per marker cell of the layer's tile grid and a Total line.         *)
(*                                                                         *)
(* A printed line is a record holding the values the format string         *)
(* interpolates; a display name is a sequence of tokens, <<"DEATH">> for a *)
(* table entry and <<"TYPE_", v>> for the fallback f'TYPE_{val}'.          *)
(***************************************************************************)
EXTENDS Integers, Sequences, FiniteSets, TLC

(***************************************************************************)
(* Bounds of the explored inputs.                                          *)
(***************************************************************************)
MaxLayers == 2
MaxRows == 3
MaxCols == 4
MaxMarkers == 2
MaxCode == 42

(***************************************************************************)
(* Program constants.                                                      *)
(***************************************************************************)
TileSize == 32

DefaultLevelFile == "public/assets/levels/level_0_1_sewer.json"

hot_spot_names ==
    (0 :> <<"NONE">>) @@
    (1 :> <<"GO_RIGHT">>) @@ (2 :> <<"GO_LEFT">>) @@ (3 :> <<"GO_UP">>) @@
    (4 :> <<"GO_DOWN">>) @@
    (5 :> <<"GO_UP_RIGHT">>) @@ (6 :> <<"GO_UP_LEFT">>) @@
    (7 :> <<"GO_DOWN_RIGHT">>) @@ (8 :> <<"GO_DOWN_LEFT">>) @@
    (9 :> <<"WAIT_SHORT">>) @@ (10 :> <<"WAIT_MEDIUM">>) @@
    (11 :> <<"WAIT_LONG">>) @@
    (12 :> <<"ATTACK">>) @@ (13 :> <<"TALK">>) @@ (14 :> <<"WALK_AND_TALK">>) @@
    (15 :> <<"TAKE_CAMERA_FOCUS">>) @@ (16 :> <<"RELEASE_CAMERA_FOCUS">>) @@
    (17 :> <<"END_LEVEL">>) @@ (18 :> <<"GAME_EVENT">>) @@
    (-2 :> <<"DEATH">>) @@ (-3 :> <<"COLLECT">>)

(***************************************************************************)
(* The input: the command line and the file the path names.  A layer       *)
(* records which of its keys are present; a document records whether it    *)
(* has the key 'layers'.                                                   *)
(***************************************************************************)
MkLayer(hasType, type, hasWorld, hasTiles, tiles) ==
    [hasType |-> hasType, type |-> type, hasWorld |-> hasWorld,
     hasTiles |-> hasTiles, tiles |-> tiles]

HotLayer(tiles) == MkLayer(TRUE, "hot_spots", TRUE, TRUE, tiles)

NoLayer == MkLayer(FALSE, "", FALSE, FALSE, <<>>)

MkDoc(hasLayers, layers) == [hasLayers |-> hasLayers, layers |-> layers]

NoDoc == MkDoc(FALSE, <<>>)

MkFile(exists, parses, doc) == [exists |-> exists, parses |-> parses, doc |-> doc]

\* Sample tile grids: empty, all sentinels, and a ragged grid with a repeated
\* value, a negative code and an unmapped code.
SampleGrids ==
    { <<>>,
      << <<-1, 0>> >>,
      << <<1, 1>>, <<-2>> >>,
      << <<0, 42>>, <<-1, 1>> >> }

LayerKinds ==
    { MkLayer(TRUE, "background", TRUE, TRUE, << <<5, -1>> >>),
      MkLayer(FALSE, "", TRUE, TRUE, << <<7>> >>),
      MkLayer(TRUE, "hot_spots", FALSE, FALSE, <<>>),
      MkLayer(TRUE, "hot_spots", TRUE, FALSE, <<>>) }
    \cup { HotLayer(g) : g \in SampleGrids }

SeqsUpTo(S, n) == UNION { [1..k -> S] : k \in 0..n }

\* Documents that vary the layer structure.
StructFiles ==
    { MkFile(FALSE, FALSE, NoDoc), MkFile(TRUE, FALSE, NoDoc),
      MkFile(TRUE, TRUE, NoDoc) }
    \cup { MkFile(TRUE, TRUE, MkDoc(TRUE, ls)) : ls \in SeqsUpTo(LayerKinds, MaxLayers) }

\* Rectangular grids of sentinel -1 with at most MaxMarkers cells set to 0 or 1.
MarkerVals == {0, 1}

RECURSIVE SubsetsUpTo(_, _)
\* The subsets of 1..n with at most k elements.
SubsetsUpTo(n, k) ==
    IF n = 0 \/ k = 0 THEN { {} }
    ELSE SubsetsUpTo(n - 1, k)
         \cup { s \cup {n} : s \in SubsetsUpTo(n - 1, k - 1) }

SparseGrid(nr, nc, marks) ==
    [r \in 1..nr |->
        [c \in 1..nc |->
            IF (r - 1) * nc + c \in DOMAIN marks
            THEN marks[(r - 1) * nc + c] ELSE -1]]

GridFile(g) == MkFile(TRUE, TRUE, MkDoc(TRUE, << HotLayer(g) >>))

\* One-cell grids over every code in -MaxCode..MaxCode.
Codes == (0 - MaxCode)..MaxCode

Argvs == { <<"check-hotspots.py">>, <<"check-hotspots.py", "level.json">> }

VARIABLES
    argv,        \* sys.argv
    file,        \* the file the path names: exists, parses, parsed content
    level_file,  \* line 5
    fOpen,       \* the handle f is open
    opens,       \* how many times the run has opened the file
    d,           \* line 8
    li,          \* position of the iterator over d['layers']
    layer,       \* line 21
    count,       \* line 24
    ri,          \* position of the iterator over the rows
    row_idx,     \* line 25
    row,         \* line 25
    ci,          \* position of the iterator over the row
    col_idx,     \* line 26
    val,         \* line 26
    out,         \* the lines printed to standard output by this run
    error,       \* "" while none, else the unhandled exception
    pc,          \* the line the run is at
    run,         \* 1 in the first run on the input, 2 in the second
    prevOut,     \* the output of the first run
    prevError    \* the exception of the first run

vars == << argv, file, level_file, fOpen, opens, d, li, layer, count, ri,
           row_idx, row, ci, col_idx, val, out, error, pc, run, prevOut,
           prevError >>

input == << argv, file >>
history == << run, prevOut, prevError >>
rowScan == << ri, row_idx, row, ci, col_idx, val >>

Init ==
    /\ \/ argv \in Argvs /\ file \in StructFiles
       \/ /\ argv = <<"check-hotspots.py">>
          /\ \E nr \in 0..MaxRows, nc \in 0..MaxCols :
                \E s \in SubsetsUpTo(nr * nc, MaxMarkers) :
                    \E marks \in [s -> MarkerVals] :
                        file = GridFile(SparseGrid(nr, nc, marks))
       \/ /\ argv = <<"check-hotspots.py">>
          /\ \E v \in Codes : file = GridFile(<< <<v>> >>)
    /\ level_file = ""
    /\ fOpen = FALSE
    /\ opens = 0
    /\ d = NoDoc
    /\ li = 0
    /\ layer = NoLayer
    /\ count = 0
    /\ ri = 0
    /\ row_idx = 0
    /\ row = <<>>
    /\ ci = 0
    /\ col_idx = 0
    /\ val = 0
    /\ out = <<>>
    /\ error = ""
    /\ pc = "argv"
    /\ run = 1
    /\ prevOut = <<>>
    /\ prevError = ""


(***************************************************************************)
(* The pure parts of the script.                                           *)
(***************************************************************************)
\* Mutant: any layer that carries a type is taken for the hot-spot layer.
IsHotSpots_AnyType(l) == l.type # ""

\* line 22: layer['type'] == 'hot_spots'
IsHotSpots(l) == l.type = "hot_spots"

\* Mutant: every value below 1 is taken for "no marker".
Reported_Positive(v) == v > 0

\* line 27: val != -1 and val != 0
Reported(v) == v # -1 /\ v # 0

\* Mutant: only the codes 0..18 are looked up in the table.
Name_NonNegative(v) ==
    IF v \in 0..18 THEN hot_spot_names[v] ELSE <<"TYPE_", v>>

\* line 28: hot_spot_names.get(val, f'TYPE_{val}')
Name(v) == IF v \in DOMAIN hot_spot_names THEN hot_spot_names[v] ELSE <<"TYPE_", v>>

\* line 23
HeaderLine(path) == [kind |-> "header", path |-> path]

\* Mutant: the row index gives x and the column index gives y.
CellLine_Swapped(r, c, v) ==
    [kind |-> "cell", row |-> r, col |-> c, val |-> v, name |-> Name(v),
     x |-> r * TileSize, y |-> c * TileSize]

\* lines 28-31
CellLine(r, c, v) ==
    [kind |-> "cell", row |-> r, col |-> c, val |-> v, name |-> Name(v),
     x |-> c * TileSize, y |-> r * TileSize]

\* line 33
TotalLine(n) == [kind |-> "total", n |-> n]

\* An unhandled exception ends the run.
Raise(e) == error' = e /\ pc' = "exit"

(***************************************************************************)
(* The steps of a run.                                                     *)
(***************************************************************************)
\* Mutant: the header is printed before the file is opened.
Start_Banner ==
    /\ pc = "argv"
    /\ level_file' = IF Len(argv) > 1 THEN argv[2] ELSE DefaultLevelFile
    /\ out' = Append(out, HeaderLine(level_file'))
    /\ pc' = "open"
    /\ UNCHANGED << input, fOpen, opens, d, li, layer, count, rowScan,
                    error, history >>

\* line 5
Start ==
    /\ pc = "argv"
    /\ level_file' = IF Len(argv) > 1 THEN argv[2] ELSE DefaultLevelFile
    /\ pc' = "open"
    /\ UNCHANGED << input, fOpen, opens, d, li, layer, count, rowScan, out,
                    error, history >>

\* line 7: open(level_file) succeeds
OpenOk ==
    /\ pc = "open"
    /\ file.exists
    /\ fOpen' = TRUE
    /\ opens' = opens + 1
    /\ pc' = "load"
    /\ UNCHANGED << input, level_file, d, li, layer, count, rowScan, out,
                    error, history >>

\* line 7: open(level_file) raises FileNotFoundError
OpenFail ==
    /\ pc = "open"
    /\ ~file.exists
    /\ Raise("FileNotFoundError")
    /\ UNCHANGED << input, level_file, fOpen, opens, d, li, layer, count,
                    rowScan, out, history >>

\* line 8: json.load(f) returns the document
LoadOk ==
    /\ pc = "load"
    /\ file.parses
    /\ d' = file.doc
    /\ pc' = "with_exit"
    /\ UNCHANGED << input, level_file, fOpen, opens, li, layer, count,
                    rowScan, out, error, history >>

\* line 8: json.load(f) raises JSONDecodeError, which leaves through the with
LoadFail ==
    /\ pc = "load"
    /\ ~file.parses
    /\ error' = "JSONDecodeError"
    /\ pc' = "with_exit"
    /\ UNCHANGED << input, level_file, fOpen, opens, d, li, layer, count,
                    rowScan, out, history >>

\* Mutant: f is closed on return only, as with f.close() after json.load(f).
WithExit_LeakOnError ==
    /\ pc = "with_exit"
    /\ fOpen' = (error # "")
    /\ pc' = IF error = "" THEN "layers" ELSE "exit"
    /\ UNCHANGED << input, level_file, opens, d, li, layer, count, rowScan,
                    out, error, history >>

\* lines 7-8: leaving the with block closes f, on return and on exception
WithExit ==
    /\ pc = "with_exit"
    /\ fOpen' = FALSE
    /\ pc' = IF error = "" THEN "layers" ELSE "exit"
    /\ UNCHANGED << input, level_file, opens, d, li, layer, count, rowScan,
                    out, error, history >>

\* line 21: d['layers'] and iter() of it
GetLayers ==
    /\ pc = "layers"
    /\ d.hasLayers
    /\ li' = 0
    /\ pc' = "for_layer"
    /\ UNCHANGED << input, level_file, fOpen, opens, d, layer, count,
                    rowScan, out, error, history >>

\* line 21: d['layers'] raises KeyError
GetLayersFail ==
    /\ pc = "layers"
    /\ ~d.hasLayers
    /\ Raise("KeyError_layers")
    /\ UNCHANGED << input, level_file, fOpen, opens, d, li, layer, count,
                    rowScan, out, history >>

\* line 21: the for statement binds the next layer
ForLayer ==
    /\ pc = "for_layer"
    /\ li < Len(d.layers)
    /\ layer' = d.layers[li + 1]
    /\ li' = li + 1
    /\ pc' = "if_type"
    /\ UNCHANGED << input, level_file, fOpen, opens, d, count, rowScan, out,
                    error, history >>

\* line 21: the layers are exhausted and the script ends
EndLayers ==
    /\ pc = "for_layer"
    /\ li >= Len(d.layers)
    /\ pc' = "exit"
    /\ UNCHANGED << input, level_file, fOpen, opens, d, li, layer, count,
                    rowScan, out, error, history >>

\* line 22: the layer is the hot-spot layer
IfTypeHot ==
    /\ pc = "if_type"
    /\ layer.hasType
    /\ IsHotSpots(layer)
    /\ pc' = "header"
    /\ UNCHANGED << input, level_file, fOpen, opens, d, li, layer, count,
                    rowScan, out, error, history >>

\* line 22: another layer is skipped
IfTypeOther ==
    /\ pc = "if_type"
    /\ layer.hasType
    /\ ~IsHotSpots(layer)
    /\ pc' = "for_layer"
    /\ UNCHANGED << input, level_file, fOpen, opens, d, li, layer, count,
                    rowScan, out, error, history >>

\* line 22: layer['type'] raises KeyError
IfTypeFail ==
    /\ pc = "if_type"
    /\ ~layer.hasType
    /\ Raise("KeyError_type")
    /\ UNCHANGED << input, level_file, fOpen, opens, d, li, layer, count,
                    rowScan, out, history >>

\* Mutant: count is not set to 0 for the layer.
PrintHeader_NoReset ==
    /\ pc = "header"
    /\ out' = Append(out, HeaderLine(level_file))
    /\ pc' = "tiles"
    /\ UNCHANGED << input, level_file, fOpen, opens, d, li, layer, count,
                    rowScan, error, history >>

\* lines 23-24
PrintHeader ==
    /\ pc = "header"
    /\ out' = Append(out, HeaderLine(level_file))
    /\ count' = 0
    /\ pc' = "tiles"
    /\ UNCHANGED << input, level_file, fOpen, opens, d, li, layer, rowScan,
                    error, history >>

\* line 25: layer['world']['tiles'] and enumerate() of it
GetTiles ==
    /\ pc = "tiles"
    /\ layer.hasWorld /\ layer.hasTiles
    /\ ri' = 0
    /\ pc' = "for_row"
    /\ UNCHANGED << input, level_file, fOpen, opens, d, li, layer, count,
                    row_idx, row, ci, col_idx, val, out, error, history >>

\* line 25: layer['world'] or ['tiles'] raises KeyError
GetTilesFail ==
    /\ pc = "tiles"
    /\ ~(layer.hasWorld /\ layer.hasTiles)
    /\ Raise(IF layer.hasWorld THEN "KeyError_tiles" ELSE "KeyError_world")
    /\ UNCHANGED << input, level_file, fOpen, opens, d, li, layer, count,
                    rowScan, out, history >>

\* line 25: the for statement binds the next row; line 26: enumerate(row)
ForRow ==
    /\ pc = "for_row"
    /\ ri < Len(layer.tiles)
    /\ row_idx' = ri
    /\ row' = layer.tiles[ri + 1]
    /\ ri' = ri + 1
    /\ ci' = 0
    /\ pc' = "for_col"
    /\ UNCHANGED << input, level_file, fOpen, opens, d, li, layer, count,
                    col_idx, val, out, error, history >>

\* line 25: the rows are exhausted
EndRows ==
    /\ pc = "for_row"
    /\ ri >= Len(layer.tiles)
    /\ pc' = "total"
    /\ UNCHANGED << input, level_file, fOpen, opens, d, li, layer, count,
                    rowScan, out, error, history >>

\* Mutant: count is incremented for every cell, reported or not.
ScanCell_CountAll ==
    /\ pc = "for_col"
    /\ ci < Len(row)
    /\ col_idx' = ci
    /\ val' = row[ci + 1]
    /\ ci' = ci + 1
    /\ IF Reported(row[ci + 1])
       THEN out' = Append(out, CellLine(row_idx, ci, row[ci + 1]))
       ELSE UNCHANGED out
    /\ count' = count + 1
    /\ UNCHANGED << input, level_file, fOpen, opens, d, li, layer, ri,
                    row_idx, row, error, pc, history >>

\* Mutant: a value already reported for the layer is not reported again.
ScanCell_Dedupe ==
    /\ pc = "for_col"
    /\ ci < Len(row)
    /\ col_idx' = ci
    /\ val' = row[ci + 1]
    /\ ci' = ci + 1
    /\ IF /\ Reported(row[ci + 1])
          /\ \A i \in DOMAIN out :
                (out[i].kind = "cell" /\ i + count > Len(out)) =>
                    out[i].val # row[ci + 1]
       THEN /\ out' = Append(out, CellLine(row_idx, ci, row[ci + 1]))
            /\ count' = count + 1
       ELSE UNCHANGED << out, count >>
    /\ UNCHANGED << input, level_file, fOpen, opens, d, li, layer, ri,
                    row_idx, row, error, pc, history >>

\* lines 26-32: the for statement binds the next cell and the body runs
ScanCell ==
    /\ pc = "for_col"
    /\ ci < Len(row)
    /\ col_idx' = ci
    /\ val' = row[ci + 1]
    /\ ci' = ci + 1
    /\ IF Reported(row[ci + 1])
       THEN /\ out' = Append(out, CellLine(row_idx, ci, row[ci + 1]))
            /\ count' = count + 1
       ELSE UNCHANGED << out, count >>
    /\ UNCHANGED << input, level_file, fOpen, opens, d, li, layer, ri,
                    row_idx, row, error, pc, history >>

\* line 26: the row is exhausted
EndRow ==
    /\ pc = "for_col"
    /\ ci >= Len(row)
    /\ pc' = "for_row"
    /\ UNCHANGED << input, level_file, fOpen, opens, d, li, layer, count,
                    rowScan, out, error, history >>

\* Mutant: the layer loop breaks after the first report.
PrintTotal_Break ==
    /\ pc = "total"
    /\ out' = Append(out, TotalLine(count))
    /\ pc' = "exit"
    /\ UNCHANGED << input, level_file, fOpen, opens, d, li, layer, count,
                    rowScan, error, history >>

\* line 33
PrintTotal ==
    /\ pc = "total"
    /\ out' = Append(out, TotalLine(count))
    /\ pc' = "for_layer"
    /\ UNCHANGED << input, level_file, fOpen, opens, d, li, layer, count,
                    rowScan, error, history >>

\* The script is run a second time on the same input.  The output and the
\* exception of the first run are kept for comparison; the names the script
\* binds keep their values, as when the body is executed again in the same
\* namespace, so that a value the script reads before binding it would show.
Rerun ==
    /\ pc = "exit"
    /\ run = 1
    /\ run' = 2
    /\ prevOut' = out
    /\ prevError' = error
    /\ out' = <<>>
    /\ error' = ""
    /\ opens' = 0
    /\ pc' = "argv"
    /\ UNCHANGED << input, level_file, fOpen, d, li, layer, count, rowScan >>

Next ==
    \/ Start
    \/ OpenOk
    \/ OpenFail
    \/ LoadOk
    \/ LoadFail
    \/ WithExit
    \/ GetLayers
    \/ GetLayersFail
    \/ ForLayer
    \/ EndLayers
    \/ IfTypeHot
    \/ IfTypeOther
    \/ IfTypeFail
    \/ PrintHeader
    \/ GetTiles
    \/ GetTilesFail
    \/ ForRow
    \/ EndRows
    \/ ScanCell
    \/ EndRow
    \/ PrintTotal

Spec == Init /\ [][Next]_vars

NextRerun == Next \/ Rerun

SpecRerun == Init /\ [][NextRerun]_vars

(***************************************************************************)
(* Vocabulary of the properties, stated on the input document and on the   *)
(* printed lines, without the operators of the script.                     *)
(***************************************************************************)
Finished == pc = "exit"

Succeeded == pc = "exit" /\ error = ""

InputLayers == file.doc.layers

\* The indices of the input layers tagged "hot_spots".
HotIdx == { j \in DOMAIN InputLayers : InputLayers[j].type = "hot_spots" }

EveryLayerTyped == \A j \in DOMAIN InputLayers : InputLayers[j].hasType

\* The cells of a grid, 1-based, and those that hold a marker.
Cells(g) == UNION { { <<r, c>> : c \in DOMAIN g[r] } : r \in DOMAIN g }

MarkerCells(g) == { p \in Cells(g) : g[p[1]][p[2]] \notin {-1, 0} }

LinesOf(o, k) == { i \in DOMAIN o : o[i].kind = k }

\* The index of the last header line among the first n lines, 0 if none.
LastHeader(o, n) ==
    LET hs == { i \in 1..n : o[i].kind = "header" }
    IN  IF hs = {} THEN 0 ELSE CHOOSE i \in hs : \A m \in hs : m <= i

\* The position of the k-th line of a kind.
KthLine(o, kind, k) ==
    CHOOSE i \in LinesOf(o, kind) :
        Cardinality({ m \in LinesOf(o, kind) : m <= i }) = k

\* The k-th hot_spots layer of the input.
KthHot(k) ==
    InputLayers[CHOOSE j \in HotIdx : Cardinality({ m \in HotIdx : m <= j }) = k]

\* Lexicographic order on (row, col).
Before(a, b) == a.row < b.row \/ (a.row = b.row /\ a.col < b.col)

(***************************************************************************)
(* C1.  As claimed: only the first layer of type "hot_spots" is reported:  *)
(* a document with two or more such layers yields exactly one header and   *)
(* one Total line, and the cell lines of the first such layer only.        *)
(* The script has no break in the layer loop, so this fails.               *)
(***************************************************************************)
C1_OnlyFirstHotSpotsLayer ==
    (Succeeded /\ Cardinality(HotIdx) >= 2) =>
        /\ Cardinality(LinesOf(out, "header")) = 1
        /\ Cardinality(LinesOf(out, "total")) = 1
        /\ Cardinality(LinesOf(out, "cell"))
             = Cardinality(MarkerCells(KthHot(1).tiles))

(***************************************************************************)
(* C1, amended.  Every layer of type "hot_spots" is reported, in layer     *)
(* order: a run that succeeds prints one header and one Total line per     *)
(* hot_spots layer, the k-th header and Total enclose as many cell lines   *)
(* as the k-th hot_spots layer has marker cells, and no other line is      *)
(* printed, so no cell line comes from a layer of another type.            *)
(***************************************************************************)
C1_EveryHotSpotsLayerReported ==
    Succeeded =>
        /\ Cardinality(LinesOf(out, "header")) = Cardinality(HotIdx)
        /\ Cardinality(LinesOf(out, "total")) = Cardinality(HotIdx)
        /\ \A k \in 1..Cardinality(HotIdx) :
              LET h == KthLine(out, "header", k)
                  t == KthLine(out, "total", k)
              IN  /\ h < t
                  /\ \A i \in (h + 1)..(t - 1) : out[i].kind = "cell"
                  /\ t - h - 1 = Cardinality(MarkerCells(KthHot(k).tiles))
        /\ Len(out) = 2 * Cardinality(HotIdx)
                        + Cardinality(LinesOf(out, "cell"))

\* Two hot_spots layers were reported, the second with a cell line.
C1_Witness ==
    /\ Succeeded
    /\ Cardinality(HotIdx) >= 2
    /\ Cardinality(LinesOf(out, "header")) = 2
    /\ Len(out) >= 2
    /\ out[Len(out) - 1].kind = "cell"

(***************************************************************************)
(* C2.  As claimed: a run that ends in an unhandled error has printed      *)
(* nothing.  A hot_spots layer without 'world' fails after its header.     *)
(***************************************************************************)
C2_NoOutputBeforeFailure ==
    (Finished /\ error # "") => out = <<>>

(***************************************************************************)
(* C2, amended.  A run that fails on a missing file, on content that does  *)
(* not parse or on a document without 'layers' has printed nothing; a run  *)
(* that fails on a layer without 'type' has printed nothing exactly when   *)
(* no hot_spots layer precedes that layer; a run that fails on a hot_spots *)
(* layer without 'world' or 'tiles' has printed that layer's header as its *)
(* last line.                                                              *)
(***************************************************************************)
C2_OutputBeforeFailure ==
    Finished =>
        /\ error \in {"FileNotFoundError", "JSONDecodeError", "KeyError_layers"}
              => out = <<>>
        /\ error = "KeyError_type"
              => (out = <<>> <=> \A j \in HotIdx : j >= li)
        /\ error \in {"KeyError_world", "KeyError_tiles"}
              => out # <<>> /\ out[Len(out)].kind = "header"

\* The second layer lacks 'type', the first is of another type: the run
\* failed with nothing printed.
C2_Witness ==
    /\ Finished
    /\ error = "KeyError_type"
    /\ li = 2
    /\ out = <<>>

(***************************************************************************)
(* C3.  A document with no layer of type "hot_spots" (the empty layer      *)
(* sequence included) makes the script print nothing, and the run          *)
(* succeeds when every layer carries the 'type' the data model gives it.   *)
(***************************************************************************)
C3_NoHotSpotsLayerSilent ==
    (Finished /\ file.exists /\ file.parses /\ file.doc.hasLayers /\ HotIdx = {}) =>
        /\ out = <<>>
        /\ EveryLayerTyped => error = ""

\* A document of layers of another type, with marker values in their tiles.
C3_Witness ==
    /\ Succeeded
    /\ file.doc.hasLayers
    /\ Len(InputLayers) >= 2
    /\ \A j \in DOMAIN InputLayers :
          /\ InputLayers[j].type = "background"
          /\ MarkerCells(InputLayers[j].tiles) # {}
    /\ out = <<>>

(***************************************************************************)
(* C4.  A step of the grid scan prints a line and increments the count if  *)
(* and only if the cell's value is neither -1 nor 0.                       *)
(***************************************************************************)
C4_SentinelsOnly ==
    [][ (pc = "for_col" /\ pc' = "for_col") =>
          LET v == layer.tiles[row_idx + 1][ci + 1]
          IN  /\ v \notin {-1, 0} =>
                    /\ Len(out') = Len(out) + 1
                    /\ SubSeq(out', 1, Len(out)) = out
                    /\ out'[Len(out')].kind = "cell"
                    /\ out'[Len(out')].val = v
                    /\ count' = count + 1
              /\ v \in {-1, 0} => out' = out /\ count' = count ]_vars

\* The negative code -2 has just been reported.
C4_Witness ==
    /\ pc = "for_col"
    /\ ci > 0
    /\ val = -2
    /\ count >= 1
    /\ out # <<>>
    /\ out[Len(out)].kind = "cell"
    /\ out[Len(out)].val = -2

(***************************************************************************)
(* C5.  A cell line carries the row index, the column index and the value  *)
(* of the cell it reports, with x = col * 32 and y = row * 32.  The cell   *)
(* is looked up in the grid of the layer being scanned, for the lines      *)
(* printed since that layer's header.                                      *)
(***************************************************************************)
C5_PixelFromIndices ==
    \A i \in LinesOf(out, "cell") :
        /\ out[i].x = out[i].col * 32
        /\ out[i].y = out[i].row * 32
        /\ (pc \in {"for_row", "for_col", "total"} /\ i > LastHeader(out, Len(out))) =>
              /\ <<out[i].row + 1, out[i].col + 1>> \in Cells(layer.tiles)
              /\ layer.tiles[out[i].row + 1][out[i].col + 1] = out[i].val

\* Value 1 at row 2, column 3 was printed with pixel (96, 64).
C5_Witness ==
    \E i \in LinesOf(out, "cell") :
        /\ out[i].row = 2 /\ out[i].col = 3 /\ out[i].val = 1
        /\ out[i].x = 96 /\ out[i].y = 64

(***************************************************************************)
(* C6.  The display name of a reported value is the table entry for 1..18, *)
(* -2 (DEATH) and -3 (COLLECT) and TYPE_<v> for every other value; NONE is *)
(* never printed.                                                          *)
(***************************************************************************)
C6_DisplayNames ==
    \A i \in LinesOf(out, "cell") :
        LET v == out[i].val
            n == out[i].name
        IN  /\ v \in (1..18) \cup {-2, -3} => n = hot_spot_names[v]
            /\ v \notin (1..18) \cup {-2, -3} => n = <<"TYPE_", v>>
            /\ v = 1 => n = <<"GO_RIGHT">>
            /\ v = 18 => n = <<"GAME_EVENT">>
            /\ v = -2 => n = <<"DEATH">>
            /\ v = -3 => n = <<"COLLECT">>
            /\ n # <<"NONE">>

\* The unmapped code 42 was printed as TYPE_42.
C6_Witness ==
    \E i \in LinesOf(out, "cell") :
        out[i].val = 42 /\ out[i].name = <<"TYPE_", 42>>

(***************************************************************************)
(* C7.  As claimed: for a document with a hot_spots layer the whole output *)
(* is one header, the cell lines and a single trailing Total line whose    *)
(* number is the number of cell lines.  A document with two hot_spots      *)
(* layers yields two such blocks.                                          *)
(***************************************************************************)
C7_SingleBlock ==
    (Succeeded /\ HotIdx # {}) =>
        /\ Len(out) >= 2
        /\ out[1].kind = "header"
        /\ out[Len(out)].kind = "total"
        /\ \A i \in 2..(Len(out) - 1) : out[i].kind = "cell"
        /\ out[Len(out)].n = Len(out) - 2

(***************************************************************************)
(* C7, amended.  The output is a sequence of blocks, one per hot_spots     *)
(* layer: a header, then the cell lines, then one Total line printed after *)
(* the scan whose number equals the number of cell lines of its block; a   *)
(* run that succeeds ends with complete blocks.  For a document with       *)
(* exactly one hot_spots layer the output is one such block, and it is the *)
(* header and Total 0 alone when the grid holds only -1 and 0.             *)
(***************************************************************************)
C7_BlockStructure ==
    /\ \A i \in DOMAIN out :
          /\ out[i].kind = "header" => (i = 1 \/ out[i - 1].kind = "total")
          /\ out[i].kind = "cell" => (i > 1 /\ out[i - 1].kind \in {"header", "cell"})
          /\ out[i].kind = "total" =>
                /\ i > 1
                /\ out[i - 1].kind \in {"header", "cell"}
                /\ out[i].n = i - 1 - LastHeader(out, i)
    /\ Succeeded => (out = <<>> \/ out[Len(out)].kind = "total")
    /\ (Succeeded /\ Cardinality(HotIdx) = 1) =>
          /\ Len(out) >= 2
          /\ out[1].kind = "header"
          /\ out[Len(out)].kind = "total"
          /\ \A i \in 2..(Len(out) - 1) : out[i].kind = "cell"
          /\ out[Len(out)].n = Len(out) - 2
          /\ MarkerCells(KthHot(1).tiles) = {} => out[Len(out)].n = 0

\* One hot_spots layer with sentinels and two markers: header, two cell
\* lines, Total 2.
C7_Witness ==
    /\ Succeeded
    /\ Cardinality(HotIdx) = 1
    /\ Cardinality(Cells(KthHot(1).tiles)) > 2
    /\ Len(out) = 4
    /\ out[4].kind = "total"
    /\ out[4].n = 2

(***************************************************************************)
(* C8.  Within the report of a grid the cell lines are in row-major        *)
(* ascending order, and when the Total line of a layer has been printed    *)
(* the reported cells are exactly the marker cells of its grid, each once. *)
(***************************************************************************)
C8_RowMajorOrder ==
    /\ \A i, j \in LinesOf(out, "cell") :
          (i < j /\ LastHeader(out, i) = LastHeader(out, j)) =>
              Before(out[i], out[j])
    /\ (pc = "for_layer" /\ out # <<>> /\ layer.type = "hot_spots"
          /\ layer.hasWorld /\ layer.hasTiles) =>
          LET h == LastHeader(out, Len(out))
              ls == { i \in LinesOf(out, "cell") : i > h }
          IN  /\ { <<out[i].row + 1, out[i].col + 1>> : i \in ls }
                    = MarkerCells(layer.tiles)
              /\ Cardinality(ls) = Cardinality(MarkerCells(layer.tiles))

\* Two cells holding the same value were both reported, in scan order, the
\* second in a later row though in an earlier column.
C8_Witness ==
    \E i, j \in LinesOf(out, "cell") :
        /\ i < j
        /\ LastHeader(out, i) = LastHeader(out, j)
        /\ out[i].val = out[j].val
        /\ out[i].row < out[j].row
        /\ out[i].col > out[j].col

C10_HandleScoped ==
    /\ opens <= 1
    /\ fOpen => opens = 1
    /\ Finished => ~fOpen
    /\ (Finished /\ error # "FileNotFoundError") => opens = 1
    /\ pc \in {"layers", "for_layer", "if_type", "header", "tiles",
               "for_row", "for_col", "total"} => (~fOpen /\ opens = 1)
    /\ out # <<>> => ~fOpen

\* A run that failed in the parser, with the handle closed.
C10_Witness ==
    /\ Finished
    /\ error = "JSONDecodeError"
    /\ opens = 1
    /\ ~fOpen

====
